---- MODULE Spec2Model ----
(***************************************************************************)
(* VibeReader backend: the books library (import, progress, delete) of     *)
(* backend/app/routers/books.py with the EPUB service of                   *)
(* backend/app/services/epub_service.py and the books table of             *)
(* backend/app/models/book.py.                                             *)
(*                                                                         *)
(* Every request handler is a coroutine on one event loop.  A handler is   *)
(* cut into steps at its database round trips, where other handlers run;   *)
(* the code between two round trips runs without interleaving and belongs  *)
(* to the action of the round trip before it.  The requests in flight are  *)
(* a bag of records, each holding a handler's position and locals.         *)
(* ParserSpec applies the two extractions of the EPUB service to one       *)
(* parsed container drawn from a bounded set of package documents.         *)
(* AnnotationSpec adds the annotation tables of models/annotation.py with  *)
(* the create and list endpoints of routers/annotations.py to the imports  *)
(* and deletes; SettingsSpec is the settings table with the three handlers *)
(* of routers/settings.py.                                                 *)
(*                                                                         *)
(* Optional[T] values are sequences: << >> is None, <<v>> is the value v.  *)
(* Percentages are counted in hundredths (42 is 0.42, 150 is 1.5).         *)
(* A byte sequence is a natural number; 0 is what a write that failed      *)
(* part-way leaves behind.                                                 *)
(***************************************************************************)
EXTENDS Integers, Sequences, FiniteSets, Bags, TLC

\* ---------------------------------------------------------------- bounds
NumContents == 3      \* distinct uploadable byte sequences 1..NumContents
MaxReqs == 2          \* requests in flight at the same time
MaxRequests == 2      \* requests received in one behaviour
MaxEntries == 2       \* identifier entries of a package document under examination
MaxItems == 3         \* manifest items of a container under examination
MaxSettingsRequests == 3  \* settings requests received in one behaviour

\* ------------------------------------------------------------- constants
HashMul == 31
HashAdd == 7
HashMod == 97

None == << >>
Some(v) == <<v>>
IsNone(o) == o = << >>
Val(o) == o[1]

Contents == 1..NumContents
PartialBytes == 0

\* ------------------------------------------------- the uploaded containers
\* What ebooklib's read_epub yields for a byte sequence: whether the archive
\* opens, the Dublin-Core entries (value, attributes) per tag in document
\* order, and the manifest items.  An entry's value is None for an element
\* without text.  Identifier text, item ids and item names are sequences of
\* characters.  raises is the set of tags whose get_metadata lookup raises.
Entry(v, a) == [value |-> v, attrs |-> a]
Item(t, i, n, c) == [type |-> t, id |-> i, name |-> n, content |-> c]
NoMeta == [openable |-> TRUE, size |-> 10, title |-> << >>, creator |-> << >>,
           publisher |-> << >>, language |-> << >>, description |-> << >>,
           identifier |-> << >>, items |-> << >>, raises |-> {}]
Unopenable == [NoMeta EXCEPT !.openable = FALSE, !.size = 3]
Container(b) ==
    CASE b = 1 -> [NoMeta EXCEPT
                     !.size = 40,
                     !.title = << Entry(Some("Dune"), << >>) >>,
                     !.creator = << Entry(Some("Herbert"), << >>) >>,
                     !.publisher = << Entry(Some("Ace"), << >>) >>,
                     !.language = << Entry(Some("en"), << >>) >>,
                     !.identifier = << Entry(Some(<<"u", "1">>), << >>),
                                       Entry(Some(<<"i", "s", "b", "n", "9">>), << >>) >>,
                     !.items = << Item("document", <<"c", "h">>, <<"c", "1">>, "valid"),
                                  Item("image", <<"i", "1">>,
                                       <<"C", "o", "v", "e", "r", ".", "j">>, "valid") >>]
      [] b = 2 -> [NoMeta EXCEPT
                     !.size = 30,
                     !.title = << Entry(None, << >>) >>,
                     !.creator = << Entry(Some("Anon"), << >>) >>,
                     !.items = << Item("image", <<"p", "1">>, <<"a", ".", "p">>, "corrupt") >>]
      [] b = 3 -> [NoMeta EXCEPT
                     !.size = 20,
                     !.title = << Entry(Some("Emma"), << >>) >>,
                     !.creator = << Entry(Some("Austen"), << >>) >>,
                     !.items = << Item("image", <<"p", "2">>,
                                       <<"c", "o", "v", "e", "r", ".", "p">>, "corrupt"),
                                  Item("image", <<"p", "3">>, <<"b", ".", "p">>, "valid") >>]
      [] OTHER -> Unopenable

\* ------------------------------------------------------------ ContentHasher
\* calculate_file_hash: a digest of the bytes, injective on the byte
\* sequences of the model (HashMod is a prime above every byte sequence).
calculate_file_hash(b) == (b * HashMul + HashAdd) % HashMod

\* faulty variant of the storage path: one file name for every fingerprint
BookPath_Flat(h) == <<"books_dir", 0, ".epub">>

\* settings.books_dir / f"{file_hash}.epub"
BookPath(h) == <<"books_dir", h, ".epub">>

Hashes == {calculate_file_hash(b) : b \in Contents}

\* ---------------------------------------------------------- ContainerParser
\* str.upper() on the characters the model's identifiers use.
Upper(ch) ==
    CASE ch = "i" -> "I" [] ch = "s" -> "S" [] ch = "b" -> "B" [] ch = "n" -> "N"
      [] ch = "u" -> "U" [] ch = "r" -> "R" [] ch = "o" -> "O" [] ch = "e" -> "E"
      [] OTHER -> ch
UpperSeq(s) == [i \in 1..Len(s) |-> Upper(s[i])]

\* pat in s
Contains(s, pat) ==
    \E i \in 1..(Len(s) - Len(pat) + 1) : SubSeq(s, i, i + Len(pat) - 1) = pat

\* repr() of an optional text: 'text' or None
Repr(o) == IF IsNone(o) THEN <<"N", "o", "n", "e">> ELSE <<"'">> \o Val(o) \o <<"'">>

RECURSIVE ReprAttrs(_)
\* the inside of repr() of the attribute dict: 'k': 'v', 'k': 'v'
ReprAttrs(a) ==
    IF a = << >> THEN << >>
    ELSE Repr(Some(a[1][1])) \o <<":", " ">> \o Repr(Some(a[1][2]))
         \o (IF Len(a) > 1 THEN <<",", " ">> ELSE << >>) \o ReprAttrs(Tail(a))

\* str(identifier) of the tuple (value, attrs)
StrEntry(e) ==
    <<"(">> \o Repr(e.value) \o <<",", " ", "{">> \o ReprAttrs(e.attrs) \o <<"}", ")">>

\* 'ISBN' in str(identifier).upper()
IsbnMarked(e) == Contains(UpperSeq(StrEntry(e)), <<"I", "S", "B", "N">>)

\* x = get_metadata(..); x[0][0] if x else default
FirstOr(entries, default) == IF Len(entries) > 0 THEN entries[1].value ELSE default

\* the loop over the identifier entries, with its break
IsbnValue(ids) ==
    IF \E i \in 1..Len(ids) : IsbnMarked(ids[i])
    THEN ids[CHOOSE i \in 1..Len(ids) :
                /\ IsbnMarked(ids[i])
                /\ \A j \in 1..(i - 1) : ~IsbnMarked(ids[j])].value
    ELSE None

DefaultMetadata ==
    [title |-> Some("Unknown Title"), author |-> Some("Unknown Author"),
     publisher |-> None, language |-> None, description |-> None, isbn |-> None]

\* EpubService.extract_metadata on the parsed container c: one try block
\* around read_epub and every lookup, one except branch
extract_metadata(c) ==
    IF ~c.openable \/ c.raises # {} THEN DefaultMetadata
    ELSE [title |-> FirstOr(c.title, Some("Unknown Title")),
          author |-> FirstOr(c.creator, Some("Unknown Author")),
          publisher |-> FirstOr(c.publisher, None),
          language |-> FirstOr(c.language, None),
          description |-> FirstOr(c.description, None),
          isbn |-> IsbnValue(c.identifier)]

\* ------------------------------------------------------------ CoverResolver
\* the items of a type, in manifest order
RECURSIVE ItemsOfType(_, _)
ItemsOfType(items, t) ==
    IF items = << >> THEN << >>
    ELSE (IF items[1].type = t THEN <<items[1]>> ELSE << >>)
         \o ItemsOfType(Tail(items), t)

\* the first item satisfying Test, as an optional
FirstItem(items, Test(_)) ==
    IF \E i \in 1..Len(items) : Test(items[i])
    THEN Some(items[CHOOSE i \in 1..Len(items) :
                      /\ Test(items[i])
                      /\ \A j \in 1..(i - 1) : ~Test(items[j])])
    ELSE None

\* str.lower() on the characters the model's item names use.
Lower(ch) ==
    CASE ch = "C" -> "c" [] ch = "O" -> "o" [] ch = "V" -> "v" [] ch = "E" -> "e"
      [] ch = "R" -> "r" [] OTHER -> ch
LowerSeq(s) == [i \in 1..Len(s) |-> Lower(s[i])]

\* 'cover' in item.get_name().lower()
NameHasCover(it) == Contains(LowerSeq(it.name), <<"c", "o", "v", "e", "r">>)
AnyItem(it) == TRUE

\* bytes are falsy when empty
Truthy(o) == ~IsNone(o) /\ Val(o).content # "empty"

Method1(items) == FirstItem(ItemsOfType(items, "cover"), AnyItem)
Method2(items) == FirstItem(ItemsOfType(items, "image"), NameHasCover)
Method3(items) == FirstItem(ItemsOfType(items, "image"), AnyItem)

\* the candidate the three methods leave in cover_image
CoverCandidate(items) ==
    LET c1 == Method1(items)
        c2 == IF Truthy(c1) THEN c1 ELSE
              LET m == Method2(items) IN IF IsNone(m) THEN c1 ELSE m
        c3 == IF Truthy(c2) THEN c2 ELSE
              LET m == Method3(items) IN IF IsNone(m) THEN c2 ELSE m
    IN c3

\* f"data:image/jpeg;base64,{img_str}" of the re-encoded item
DataUri(it) == <<"data:image/jpeg;base64,", it.id>>

\* EpubService.extract_cover on the parsed container c
extract_cover(c) ==
    IF ~c.openable THEN None
    ELSE LET cand == CoverCandidate(c.items) IN
         IF ~Truthy(cand) THEN None
         ELSE IF Val(cand).content = "corrupt" THEN None
         ELSE Some(DataUri(Val(cand)))

\* ------------------------------------------------------------------- state
VARIABLES
    is_desktop,   \* settings.is_desktop, fixed for the life of the process
    books,        \* the rows of the books table
    files,        \* path under books_dir -> the bytes of the file there, or None
    reqs,         \* the bag of requests in flight: position (pc) and locals
    resp,         \* the response the last step sent, if it sent one
    started,      \* requests received so far
    epub,         \* a parsed container under examination (what read_epub yields)
    extracted,    \* what the two extractions returned for it, once they ran
    foreign_keys, \* whether the database enforces foreign keys (PostgreSQL does;
                  \* SQLite only under PRAGMA foreign_keys, which the engine never sets)
    annotations,  \* the rows of the highlights, notes and chat_contexts tables
    settings      \* the rows of the settings table

vars == <<is_desktop, books, files, reqs, resp, started, epub, extracted,
          foreign_keys, annotations, settings>>
library == <<is_desktop, books, files, reqs, resp, started>>
examined == <<epub, extracted>>
annotated == <<foreign_keys, annotations>>
aside == <<examined, annotated, settings>>

\* datetime.utcnow(): time is counted in requests received, so that the
\* readings of two requests differ and a later request never reads less
utcnow == started

Paths == {BookPath(h) : h \in Hashes}
InFlight == BagToSet(reqs)
Quiescent == reqs = EmptyBag
One(q) == SetToBag({q})

\* The event loop: save_epub_file's write, extract_metadata and extract_cover
\* are coroutines without a suspension point, awaited one after the other, so
\* the import that has written its file holds the loop until its record is
\* assembled; no other handler runs and no request is accepted meanwhile.
OnLoop == {q \in InFlight : q.pc = "imp_extract"}
Runnable == IF OnLoop = {} THEN InFlight ELSE OnLoop

\* a new request is taken while fewer than MaxReqs are in flight
CanStart == started < MaxRequests /\ BagCardinality(reqs) < MaxReqs /\ OnLoop = {}

HasId(id) == \E bk \in books : bk.id = id
Row(id) == CHOOSE bk \in books : bk.id = id
ByHash(h) == {bk \in books : bk.file_hash = h}
Ids == {bk.id : bk \in books}

\* INTEGER PRIMARY KEY of SQLite: one above the largest id in the table
NextId == IF books = {} THEN 1 ELSE 1 + (CHOOSE i \in Ids : \A j \in Ids : j <= i)

NoRequest == [pc |-> "none"]
NotExtracted == [metadata |-> None, cover |-> None]
NoResponse ==
    [op |-> "none", status |-> 0, detail |-> << >>, body |-> None, req |-> NoRequest]

\* the request q moves on to q2 / a new request q2 is in flight
Continue(q, q2) == reqs' = (reqs (-) One(q)) (+) One(q2) /\ resp' = NoResponse
Accept(q2) == reqs' = reqs (+) One(q2) /\ resp' = NoResponse

\* HTTPException(status_code, detail) leaving the handler of request q (detail
\* is the tuple of the message's parts), and the 200 response with its body;
\* RespondNew answers a request in its first step
Error(q, op, status, detail) ==
    [op |-> op, status |-> status, detail |-> detail, body |-> None, req |-> q]
Respond(q, op, status, detail) ==
    reqs' = reqs (-) One(q) /\ resp' = Error(q, op, status, detail)
RespondNew(q, op, status, detail) ==
    reqs' = reqs /\ resp' = Error(q, op, status, detail)
Return(q, op, body) ==
    /\ reqs' = reqs (-) One(q)
    /\ resp' = [op |-> op, status |-> 200, detail |-> << >>, body |-> Some(body),
                req |-> q]

\* ---------------------------------------------------------------- import_book
Extensions == {".epub", ".EPUB", ".pdf"}

\* file.filename.endswith('.epub')
EndsWithEpub(ext) == ext = ".epub"

\* faulty variants of the dedup gate: one that never finds a duplicate, one that
\* looks up another fingerprint than that of the upload
DuplicateFound_Never(h) == FALSE
DuplicateFound_OtherHash(h) == \E bk \in books : bk.file_hash = h + 1

\* the dedup gate of lines 75-85
DuplicateFound(h) == ByHash(h) # {}

\* the detail of the 409 of lines 82-85
DuplicateDetail(existing_book) ==
    <<"This book is already in your library", existing_book.title, existing_book.author>>

\* lines 63-85: the file type check, the upload's read, the hash, the query by
\* fingerprint and the 409 it may raise
ImportBegin(b, ext) ==
    LET file_hash == calculate_file_hash(b)
        q == [pc |-> "imp_begin", content |-> b, ext |-> ext]
    IN
    /\ CanStart
    /\ started' = started + 1
    /\ IF ~EndsWithEpub(ext)
       THEN RespondNew(q, "import", 400, <<"Only EPUB files are supported">>)
       ELSE IF DuplicateFound(file_hash)
       THEN LET existing_book == CHOOSE bk \in ByHash(file_hash) : TRUE IN
            RespondNew(q, "import", 409, DuplicateDetail(existing_book))
       ELSE Accept([pc |-> "imp_save", content |-> b, file_hash |-> file_hash])
    /\ UNCHANGED <<is_desktop, books, files>>

\* what open(file_path, "wb") and f.write(content) leave at the path
WriteOutcomes == {"ok", "no_file", "partial"}
Written(old, b, outcome) ==
    CASE outcome = "ok" -> Some(b)
      [] outcome = "partial" -> Some(PartialBytes)
      [] OTHER -> old

\* the Book(...) of lines 97-109
NewBook(b, h, path, metadata, cover_image, now) ==
    [title |-> metadata.title, author |-> metadata.author,
     publisher |-> metadata.publisher, file_path |-> path,
     file_size |-> Container(b).size, file_hash |-> h,
     cover_image |-> cover_image, isbn |-> metadata.isbn,
     language |-> metadata.language, description |-> metadata.description,
     import_date |-> now,
     current_cfi |-> None, current_chapter |-> None, percentage |-> None,
     location_index |-> None, last_read_date |-> None, locations_data |-> None]

\* line 88: save_epub_file; any exception ends in the handler of lines 119-122
ImportSave(q, outcome) ==
    LET path == BookPath(q.file_hash) IN
    /\ q.pc = "imp_save"
    /\ IF ~is_desktop
       THEN /\ Respond(q, "import", 500,
                       <<"Failed to import book", "Cloud storage not yet implemented">>)
            /\ UNCHANGED files
       ELSE /\ files' = [files EXCEPT ![path] = Written(files[path], q.content, outcome)]
            /\ IF outcome # "ok"
               THEN Respond(q, "import", 500, <<"Failed to import book">>)
               ELSE Continue(q, [pc |-> "imp_extract", content |-> q.content,
                                 file_hash |-> q.file_hash])
    /\ UNCHANGED <<is_desktop, books, started>>

\* lines 91-111: the two extractions on the stored file and the record
ImportExtract(q) ==
    LET path == BookPath(q.file_hash)
        stored == Container(Val(files[path]))
    IN
    /\ q.pc = "imp_extract"
    /\ Continue(q, [pc |-> "imp_commit", content |-> q.content,
                    file_hash |-> q.file_hash,
                    book |-> NewBook(q.content, q.file_hash, path,
                                     extract_metadata(stored),
                                     extract_cover(stored), utcnow)])
    /\ UNCHANGED <<is_desktop, books, files, started>>

\* faulty variant of the uniqueness constraint: file_hash without unique=True
UniqueOk_Unchecked(bk) == TRUE

\* the constraints of the books table (models/book.py): nullable=False on
\* title and author, unique=True on file_hash
NotNullOk(bk) == ~IsNone(bk.title) /\ ~IsNone(bk.author)
UniqueOk(bk) == ByHash(bk.file_hash) = {}
InsertOk(bk) == NotNullOk(bk) /\ UniqueOk(bk)

\* the row the INSERT adds: the record with its id and the mixin's timestamps
Inserted(bk, id, now) ==
    [c \in DOMAIN bk \cup {"id", "created_at", "updated_at"} |->
        CASE c = "id" -> id
          [] c \in {"created_at", "updated_at"} -> now
          [] OTHER -> bk[c]]

\* line 112: the INSERT and its commit, or the rollback of lines 119-122
ImportCommit(q) ==
    /\ q.pc = "imp_commit"
    /\ IF InsertOk(q.book)
       THEN /\ books' = books \cup {Inserted(q.book, NextId, utcnow)}
            /\ Continue(q, [pc |-> "imp_refresh", content |-> q.content,
                            file_hash |-> q.file_hash, id |-> NextId])
       ELSE /\ Respond(q, "import", 500, <<"Failed to import book">>)
            /\ UNCHANGED books
    /\ UNCHANGED <<is_desktop, files, started>>

\* lines 113-115: db.refresh(book) and the response
ImportRefresh(q) ==
    /\ q.pc = "imp_refresh"
    /\ IF HasId(q.id)
       THEN Return(q, "import", Row(q.id))
       ELSE Respond(q, "import", 500, <<"Failed to import book">>)
    /\ UNCHANGED <<is_desktop, books, files, started>>

\* ------------------------------------------------------------ update_progress
Cfis == {"epubcfi(/6/4)"}
Chapters == {3}
Percentages == {0 - 1, 0, 100, 150}
Opt(S) == {None} \cup {Some(v) : v \in S}
ProgressUpdates ==
    [current_cfi : Opt(Cfis), current_chapter : Opt(Chapters),
     percentage : Opt(Percentages)]

\* faulty variants of the range check: the lower bound alone, the upper alone
PercentageOk_NoUpper(progress) ==
    IsNone(progress.percentage) \/ 0 <= Val(progress.percentage)
PercentageOk_NoLower(progress) ==
    IsNone(progress.percentage) \/ Val(progress.percentage) <= 100

\* lines 220-222: 0.0 <= progress.percentage <= 1.0 when it is not None
PercentageOk(progress) ==
    IsNone(progress.percentage)
    \/ (0 <= Val(progress.percentage) /\ Val(progress.percentage) <= 100)

\* faulty variants of the assignments: every field assigned whether or not the update
\* carries it, and last_read_date set only when the update carries a field
Merged_Overwrite(book, progress, now) ==
    [book EXCEPT !.current_cfi = progress.current_cfi,
                 !.current_chapter = progress.current_chapter,
                 !.percentage = progress.percentage,
                 !.last_read_date = Some(now)]
Merged_StampIfCarried(book, progress, now) ==
    [book EXCEPT
       !.current_cfi = IF IsNone(progress.current_cfi) THEN @ ELSE progress.current_cfi,
       !.current_chapter =
           IF IsNone(progress.current_chapter) THEN @ ELSE progress.current_chapter,
       !.percentage = IF IsNone(progress.percentage) THEN @ ELSE progress.percentage,
       !.last_read_date =
           IF /\ IsNone(progress.current_cfi) /\ IsNone(progress.current_chapter)
              /\ IsNone(progress.percentage)
           THEN @ ELSE Some(now)]

\* lines 228-236: the attribute values after the assignments
Merged(book, progress, now) ==
    [book EXCEPT
       !.current_cfi = IF IsNone(progress.current_cfi) THEN @ ELSE progress.current_cfi,
       !.current_chapter =
           IF IsNone(progress.current_chapter) THEN @ ELSE progress.current_chapter,
       !.percentage = IF IsNone(progress.percentage) THEN @ ELSE progress.percentage,
       !.last_read_date = Some(now)]

\* faulty variant of the unit of work: an UPDATE that sets every column to the
\* object's value, changed or not
Changes_All(loaded, new) == [c \in DOMAIN loaded |-> new[c]]

\* the unit of work of the session: the attributes of the object whose value
\* differs from the one loaded, which are the columns the UPDATE sets
Changes(loaded, new) ==
    LET dirty == {c \in DOMAIN loaded : new[c] # loaded[c]} IN
    [c \in dirty |-> new[c]]

\* lines 212-236: the query by id, the 404, the range check, the assignments
UpdateBegin(book_id, progress) ==
    LET q == [pc |-> "upd_begin", book_id |-> book_id, progress |-> progress] IN
    /\ CanStart
    /\ started' = started + 1
    /\ IF ~HasId(book_id)
       THEN RespondNew(q, "update", 404, <<"Book not found">>)
       ELSE IF ~PercentageOk(progress)
       THEN RespondNew(q, "update", 400,
                       <<"Percentage must be between 0.0 and 1.0, got",
                         Val(progress.percentage)>>)
       ELSE Accept([pc |-> "upd_commit", book_id |-> book_id, progress |-> progress,
                    loaded |-> Row(book_id),
                    book |-> Merged(Row(book_id), progress, utcnow')])
    /\ UNCHANGED <<is_desktop, books, files>>

\* the row after UPDATE books SET <changes>, updated_at = now
Updated(row, changes, now) ==
    [c \in DOMAIN row |->
        IF c \in DOMAIN changes THEN changes[c]
        ELSE IF c = "updated_at" THEN now ELSE row[c]]

\* line 238: the flush (an UPDATE of the changed columns, which must match
\* one row) and the commit
UpdateCommit(q) ==
    /\ q.pc = "upd_commit"
    /\ IF DOMAIN Changes(q.loaded, q.book) = {}
       THEN /\ Continue(q, [q EXCEPT !.pc = "upd_refresh"])
            /\ UNCHANGED books
       ELSE IF ~HasId(q.book_id)
       THEN /\ Respond(q, "update", 500, <<"Internal Server Error">>)
            /\ UNCHANGED books
       ELSE /\ books' = (books \ {Row(q.book_id)})
                          \cup {Updated(Row(q.book_id), Changes(q.loaded, q.book), utcnow)}
            /\ Continue(q, [q EXCEPT !.pc = "upd_refresh"])
    /\ UNCHANGED <<is_desktop, files, started>>

\* lines 239-241: db.refresh(book) and the response
UpdateRefresh(q) ==
    /\ q.pc = "upd_refresh"
    /\ IF HasId(q.book_id)
       THEN Return(q, "update", Row(q.book_id))
       ELSE Respond(q, "update", 500, <<"Internal Server Error">>)
    /\ UNCHANGED <<is_desktop, books, files, started>>

\* ---------------------------------------------------------------- delete_book
\* lines 250-256: the query by id and the 404
DeleteBegin(book_id) ==
    /\ CanStart
    /\ started' = started + 1
    /\ IF ~HasId(book_id)
       THEN RespondNew([pc |-> "del_begin", book_id |-> book_id],
                       "delete", 404, <<"Book not found">>)
       ELSE Accept([pc |-> "del_unlink", book_id |-> book_id,
                    file_path |-> Row(book_id).file_path])
    /\ UNCHANGED <<is_desktop, books, files>>

\* lines 258-268: the unlink of the stored file, whose failure is only
\* printed, and db.delete(book)
DeleteUnlink(q, unlinked) ==
    /\ q.pc = "del_unlink"
    /\ files' = IF unlinked THEN [files EXCEPT ![q.file_path] = None] ELSE files
    /\ Continue(q, [q EXCEPT !.pc = "del_commit"])
    /\ UNCHANGED <<is_desktop, books, started>>

\* ForeignKey("books.id", ondelete="CASCADE") of the three annotation tables:
\* the rows SQLite removes with the book's row, when it enforces foreign keys
Cascaded(book_id) ==
    IF foreign_keys /\ HasId(book_id)
    THEN {a \in annotations : a.book_id = book_id}
    ELSE {}

\* lines 269-271: the DELETE by id and its commit (a DELETE that matches no
\* row only warns)
DeleteCommit(q) ==
    /\ q.pc = "del_commit"
    /\ books' = {bk \in books : bk.id # q.book_id}
    /\ annotations' = annotations \ Cascaded(q.book_id)
    /\ Return(q, "delete", <<"Book deleted successfully">>)
    /\ UNCHANGED <<is_desktop, files, started>>

\* ------------------------------------------------------------- specification
\* The library the process starts with is the one its last run left in the
\* database file and under books_dir: none, or the book of byte sequence 1,
\* imported and read up to a position (in desktop mode, the only mode that
\* stores a book).
StartedReading ==
    [current_cfi |-> Some("epubcfi(/6/4)"), current_chapter |-> None,
     percentage |-> Some(0)]
ImportedBefore(b) ==
    LET h == calculate_file_hash(b)
        bk == NewBook(b, h, BookPath(h), extract_metadata(Container(b)),
                      extract_cover(Container(b)), 0)
    IN Merged(Inserted(bk, 1, 0), StartedReading, 0)

Init ==
    /\ is_desktop \in BOOLEAN
    /\ \/ /\ books = {}
          /\ files = [p \in Paths |-> None]
       \/ /\ is_desktop
          /\ books = {ImportedBefore(1)}
          /\ files = [p \in Paths |->
                        IF p = BookPath(calculate_file_hash(1)) THEN Some(1) ELSE None]
    /\ reqs = EmptyBag
    /\ resp = NoResponse
    /\ started = 0
    /\ epub = Unopenable
    /\ extracted = NotExtracted
    /\ foreign_keys = ~is_desktop
    /\ annotations = {}
    /\ settings = {}

\* the ids a request may name: those of the table and one that is not there
BookIds == Ids \cup {NextId}

Next ==
    \/ \E b \in Contents, ext \in Extensions :
          ImportBegin(b, ext) /\ UNCHANGED aside
    \/ \E q \in Runnable, outcome \in WriteOutcomes :
          ImportSave(q, outcome) /\ UNCHANGED aside
    \/ \E q \in Runnable : ImportExtract(q) /\ UNCHANGED aside
    \/ \E q \in Runnable : ImportCommit(q) /\ UNCHANGED aside
    \/ \E q \in Runnable : ImportRefresh(q) /\ UNCHANGED aside
    \/ \E book_id \in BookIds, progress \in ProgressUpdates :
          UpdateBegin(book_id, progress) /\ UNCHANGED aside
    \/ \E q \in Runnable : UpdateCommit(q) /\ UNCHANGED aside
    \/ \E q \in Runnable : UpdateRefresh(q) /\ UNCHANGED aside
    \/ \E book_id \in BookIds : DeleteBegin(book_id) /\ UNCHANGED aside
    \/ \E q \in Runnable, unlinked \in BOOLEAN :
          DeleteUnlink(q, unlinked) /\ UNCHANGED aside
    \/ \E q \in Runnable : DeleteCommit(q) /\ UNCHANGED <<examined, foreign_keys, settings>>

Spec == Init /\ [][Next]_vars

\* ------------------------------------------- the extractions on their own
\* The two extractions applied to one parsed container, drawn from the
\* package documents and manifests below.
Tags == {"title", "creator", "publisher", "language", "description", "identifier"}

TitleEntries == {<< >>, << Entry(None, << >>) >>, << Entry(Some("Dune"), << >>) >>}
CreatorEntries == {<< >>, << Entry(None, << >>) >>, << Entry(Some("Herbert"), << >>) >>}
PublisherEntries == {<< >>, << Entry(Some("Ace"), << >>) >>}

\* <dc:identifier> elements: a urn, an "isbn:..." text, a bare number whose
\* opf:scheme attribute is ISBN, and an element without text with that scheme
IsbnScheme == << << <<"s">>, <<"I", "S", "B", "N">> >> >>
IdentifierEntries ==
    {Entry(Some(<<"u", "1">>), << >>),
     Entry(Some(<<"i", "s", "b", "n", "9">>), << >>),
     Entry(Some(<<"9", "7", "8">>), IsbnScheme),
     Entry(None, IsbnScheme)}

\* manifest items: a cover-typed item without bytes, a cover-typed image, a
\* plain image, an image whose id alone says cover, and a corrupt image whose
\* file name says Cover
ManifestItems ==
    {Item("cover", <<"c", "0">>, <<"f", ".", "j">>, "empty"),
     Item("cover", <<"c", "1">>, <<"t", ".", "j">>, "valid"),
     Item("image", <<"p", "1">>, <<"a", ".", "p">>, "valid"),
     Item("image", <<"c", "o", "v", "e", "r">>, <<"b", ".", "p">>, "valid"),
     Item("image", <<"p", "2">>, <<"C", "o", "v", "e", "r", ".", "j">>, "corrupt")}

SeqsUpTo(S, n) == UNION {[1..k -> S] : k \in 0..n}

ParsedContainers ==
    {Unopenable}
    \cup {[NoMeta EXCEPT !.title = t, !.creator = a, !.publisher = p,
                         !.identifier = ids, !.raises = r] :
             t \in TitleEntries, a \in CreatorEntries, p \in PublisherEntries,
             ids \in SeqsUpTo(IdentifierEntries, MaxEntries),
             r \in {{}} \cup {{tag} : tag \in Tags}}
    \cup {[NoMeta EXCEPT !.items = its] : its \in SeqsUpTo(ManifestItems, MaxItems)}

ParserInit ==
    /\ is_desktop = TRUE
    /\ books = {}
    /\ files = [p \in Paths |-> None]
    /\ reqs = EmptyBag
    /\ resp = NoResponse
    /\ started = 0
    /\ epub \in ParsedContainers
    /\ extracted = NotExtracted
    /\ foreign_keys = FALSE
    /\ annotations = {}
    /\ settings = {}

\* metadata = await epub_service.extract_metadata(file_path)
ExtractMetadata ==
    /\ IsNone(extracted.metadata)
    /\ extracted' = [extracted EXCEPT !.metadata = Some(extract_metadata(epub))]
    /\ UNCHANGED <<library, epub, annotated, settings>>

\* cover_image = await epub_service.extract_cover(file_path)
ExtractCover ==
    /\ IsNone(extracted.cover)
    /\ extracted' = [extracted EXCEPT !.cover = Some(extract_cover(epub))]
    /\ UNCHANGED <<library, epub, annotated, settings>>

ParserNext == ExtractMetadata \/ ExtractCover

ParserSpec == ParserInit /\ [][ParserNext]_vars

\* ------------------------------------------------------------- annotations
\* The highlights, notes and chat_contexts tables, told apart by kind; a row
\* is its key and the book it names (the columns the endpoints select on).
Kinds == {"highlight", "note", "chat_context"}

AnnotationsOf(kind, book_id) ==
    {a \in annotations : a.kind = kind /\ a.book_id = book_id}

\* INTEGER PRIMARY KEY of SQLite, per table
NextAnnotationId(kind) ==
    LET ids == {a.id : a \in {x \in annotations : x.kind = kind}} IN
    IF ids = {} THEN 1 ELSE 1 + (CHOOSE i \in ids : \A j \in ids : j <= i)

\* the foreign key of book_id, checked by the INSERT only when the connection
\* enforces foreign keys
ForeignKeyOk(book_id) == ~foreign_keys \/ HasId(book_id)

\* create_highlight, create_note, create_chat_context up to the commit: the
\* object of the posted fields, db.add and the INSERT
CreateAnnotation(kind, book_id) ==
    LET id == NextAnnotationId(kind) IN
    /\ CanStart
    /\ started' = started + 1
    /\ IF ForeignKeyOk(book_id)
       THEN /\ annotations' = annotations \cup {[kind |-> kind, id |-> id, book_id |-> book_id]}
            /\ Accept([pc |-> "ann_refresh", kind |-> kind, id |-> id])
       ELSE /\ UNCHANGED annotations
            /\ RespondNew([pc |-> "ann_begin", kind |-> kind, book_id |-> book_id],
                          "create", 500, <<"Internal Server Error">>)
    /\ UNCHANGED <<is_desktop, books, files, foreign_keys>>

\* db.refresh of the new row and the response
AnnotationRefresh(q) ==
    /\ q.pc = "ann_refresh"
    /\ IF \E a \in annotations : a.kind = q.kind /\ a.id = q.id
       THEN Return(q, "create", CHOOSE a \in annotations : a.kind = q.kind /\ a.id = q.id)
       ELSE Respond(q, "create", 500, <<"Internal Server Error">>)
    /\ UNCHANGED <<is_desktop, books, files, started, annotated>>

\* get_highlights, get_notes, get_chat_contexts: the rows of one table that
\* name the book id of the path
ListAnnotations(kind, book_id) ==
    /\ CanStart
    /\ started' = started + 1
    /\ reqs' = reqs
    /\ resp' = [op |-> "list", status |-> 200, detail |-> << >>,
                body |-> Some(AnnotationsOf(kind, book_id)),
                req |-> [pc |-> "ann_list", kind |-> kind, book_id |-> book_id]]
    /\ UNCHANGED <<is_desktop, books, files, annotated>>

\* The desktop process starts on what its last run left: the book of byte
\* sequence 1, with or without a highlight; the SQLite build decides whether
\* a connection that sets no PRAGMA enforces foreign keys (the default is
\* that it does not).
AnnotationInit ==
    /\ is_desktop = TRUE
    /\ books = {ImportedBefore(1)}
    /\ files = [p \in Paths |->
                  IF p = BookPath(calculate_file_hash(1)) THEN Some(1) ELSE None]
    /\ reqs = EmptyBag
    /\ resp = NoResponse
    /\ started = 0
    /\ epub = Unopenable
    /\ extracted = NotExtracted
    /\ foreign_keys \in BOOLEAN
    /\ annotations \in {{}, {[kind |-> "highlight", id |-> 1, book_id |-> 1]}}
    /\ settings = {}

AnnotationNext ==
    \/ \E b \in Contents, ext \in Extensions :
          ImportBegin(b, ext) /\ UNCHANGED aside
    \/ \E q \in Runnable, outcome \in WriteOutcomes :
          ImportSave(q, outcome) /\ UNCHANGED aside
    \/ \E q \in Runnable : ImportExtract(q) /\ UNCHANGED aside
    \/ \E q \in Runnable : ImportCommit(q) /\ UNCHANGED aside
    \/ \E q \in Runnable : ImportRefresh(q) /\ UNCHANGED aside
    \/ \E book_id \in BookIds : DeleteBegin(book_id) /\ UNCHANGED aside
    \/ \E q \in Runnable, unlinked \in BOOLEAN :
          DeleteUnlink(q, unlinked) /\ UNCHANGED aside
    \/ \E q \in Runnable : DeleteCommit(q) /\ UNCHANGED <<examined, foreign_keys, settings>>
    \/ \E kind \in Kinds, book_id \in BookIds :
          CreateAnnotation(kind, book_id) /\ UNCHANGED <<examined, settings>>
    \/ \E q \in Runnable : AnnotationRefresh(q) /\ UNCHANGED <<examined, settings>>
    \/ \E kind \in Kinds, book_id \in BookIds :
          ListAnnotations(kind, book_id) /\ UNCHANGED <<examined, settings>>

AnnotationSpec == AnnotationInit /\ [][AnnotationNext]_vars

\* ---------------------------------------------------------------- settings
\* A row of the settings table is its key and three of its columns: two
\* reading preferences and the API key.
NewSettings == [font_size |-> 16, theme |-> "system", api_key |-> None]

ReadingSettingsUpdates == [font_size : Opt({18}), theme : Opt({"dark"})]
ApiSettingsUpdates == [api_key : Opt({"k"})]

\* scalar_one_or_none() of select(UserSettings): more than one row raises
\* MultipleResultsFound
MultipleResultsFound == Cardinality(settings) > 1

\* INTEGER PRIMARY KEY of SQLite
NextSettingsId ==
    LET ids == {s.id : s \in settings} IN
    IF ids = {} THEN 1 ELSE 1 + (CHOOSE i \in ids : \A j \in ids : j <= i)

\* the columns of a row without its key, and a row of those columns
Columns(row) == [c \in DOMAIN row \ {"id"} |-> row[c]]
WithId(cols, id) == [c \in DOMAIN cols \cup {"id"} |-> IF c = "id" THEN id ELSE cols[c]]

\* a settings request is taken while fewer than MaxReqs are in flight
CanStartSettings ==
    started < MaxSettingsRequests /\ BagCardinality(reqs) < MaxReqs

\* the object the three handlers go on with: the row the select found, or
\* a UserSettings() of the defaults that db.add marks for INSERT
Loaded(op) ==
    IF settings = {}
    THEN [pc |-> "set_commit", op |-> op, id |-> None,
          loaded |-> NewSettings, settings |-> NewSettings]
    ELSE LET row == CHOOSE s \in settings : TRUE IN
         [pc |-> "set_commit", op |-> op, id |-> Some(row.id),
          loaded |-> Columns(row), settings |-> Columns(row)]

\* get_settings: the select, and with no row the defaults to insert
GetSettings ==
    LET q == [pc |-> "set_begin", op |-> "get_settings"] IN
    /\ CanStartSettings
    /\ started' = started + 1
    /\ IF MultipleResultsFound
       THEN RespondNew(q, "get_settings", 500, <<"Internal Server Error">>)
       ELSE IF settings # {}
       THEN /\ reqs' = reqs
            /\ resp' = [op |-> "get_settings", status |-> 200, detail |-> << >>,
                        body |-> Some(CHOOSE s \in settings : TRUE), req |-> q]
       ELSE Accept(Loaded("get_settings"))
    /\ UNCHANGED <<is_desktop, books, files, settings>>

\* update_reading_settings: the select and the assignments of the fields the
\* update carries
UpdateReadingSettings(update) ==
    LET q == [pc |-> "set_begin", op |-> "update_reading_settings", update |-> update]
        s == Loaded("update_reading_settings")
    IN
    /\ CanStartSettings
    /\ started' = started + 1
    /\ IF MultipleResultsFound
       THEN RespondNew(q, "update_reading_settings", 500, <<"Internal Server Error">>)
       ELSE Accept([s EXCEPT
               !.settings.font_size =
                   IF IsNone(update.font_size) THEN @ ELSE Val(update.font_size),
               !.settings.theme = IF IsNone(update.theme) THEN @ ELSE Val(update.theme)])
    /\ UNCHANGED <<is_desktop, books, files, settings>>

\* update_api_settings: the select and the assignments of the fields the
\* update carries
UpdateApiSettings(update) ==
    LET q == [pc |-> "set_begin", op |-> "update_api_settings", update |-> update]
        s == Loaded("update_api_settings")
    IN
    /\ CanStartSettings
    /\ started' = started + 1
    /\ IF MultipleResultsFound
       THEN RespondNew(q, "update_api_settings", 500, <<"Internal Server Error">>)
       ELSE Accept([s EXCEPT
               !.settings.api_key = IF IsNone(update.api_key) THEN @ ELSE update.api_key])
    /\ UNCHANGED <<is_desktop, books, files, settings>>

\* db.commit(): the INSERT of a new object, or the UPDATE of the columns that
\* changed in the row of the object's key
SettingsCommit(q) ==
    /\ q.pc = "set_commit"
    /\ IF IsNone(q.id)
       THEN /\ settings' = settings \cup {WithId(q.settings, NextSettingsId)}
            /\ Continue(q, [q EXCEPT !.pc = "set_refresh", !.id = Some(NextSettingsId)])
       ELSE LET row == CHOOSE s \in settings : s.id = Val(q.id) IN
            /\ settings' = (settings \ {row})
                             \cup {Updated(row, Changes(q.loaded, q.settings), utcnow)}
            /\ Continue(q, [q EXCEPT !.pc = "set_refresh"])
    /\ UNCHANGED <<is_desktop, books, files, started>>

\* db.refresh(settings) and the response
SettingsRefresh(q) ==
    /\ q.pc = "set_refresh"
    /\ Return(q, q.op, CHOOSE s \in settings : s.id = Val(q.id))
    /\ UNCHANGED <<is_desktop, books, files, started, settings>>

\* the settings table is empty when the first request arrives
SettingsInit ==
    /\ is_desktop = TRUE
    /\ books = {}
    /\ files = [p \in Paths |-> None]
    /\ reqs = EmptyBag
    /\ resp = NoResponse
    /\ started = 0
    /\ epub = Unopenable
    /\ extracted = NotExtracted
    /\ foreign_keys = FALSE
    /\ annotations = {}
    /\ settings = {}

SettingsNext ==
    \/ GetSettings /\ UNCHANGED <<examined, annotated>>
    \/ \E update \in ReadingSettingsUpdates :
          UpdateReadingSettings(update) /\ UNCHANGED <<examined, annotated>>
    \/ \E update \in ApiSettingsUpdates :
          UpdateApiSettings(update) /\ UNCHANGED <<examined, annotated>>
    \/ \E q \in InFlight : SettingsCommit(q) /\ UNCHANGED <<examined, annotated>>
    \/ \E q \in InFlight : SettingsRefresh(q) /\ UNCHANGED <<examined, annotated>>

SettingsSpec == SettingsInit /\ [][SettingsNext]_vars

\* ================================================================== claims
\* a request was received in this step, as in every step of a handler's start
Received == started' = started + 1

\* The stored file of a record is in place.
FileInPlace(bk) == ~IsNone(files[bk.file_path])
StoredFilesFor(h, fs) == {p \in Paths : p = BookPath(h) /\ ~IsNone(fs[p])}

C2_CommitConflictIsDuplicate ==
    [][\A q \in InFlight :
          (ImportCommit(q) /\ ~UniqueOk(q.book))
          => /\ resp'.status = 409
             /\ \E R \in ByHash(q.file_hash) : resp'.detail = DuplicateDetail(R)]_vars

\* C3: no two rows of the books table have the same fingerprint.
C3_FingerprintUnique ==
    \A b1 \in books, b2 \in books : b1.file_hash = b2.file_hash => b1 = b2

\* C3 witness: an import that passed the pre-check waits to commit while a
\* row with its fingerprint is already in the table.
C3_Witness ==
    \E q \in InFlight : q.pc = "imp_commit" /\ ByHash(q.file_hash) # {}

\* a percentage that is present and outside [0.0, 1.0]
OutOfRange(pct) == ~IsNone(pct) /\ (Val(pct) < 0 \/ Val(pct) > 100)

\* C4: a progress update for a book of the table whose percentage is present
\* and out of range is answered 400 at once: no row changes and no request
\* stays in flight that could write later.
C4_OutOfRangeRejected ==
    [][Received =>
       \A book_id \in BookIds, progress \in ProgressUpdates :
          (/\ HasId(book_id)
           /\ OutOfRange(progress.percentage)
           /\ UpdateBegin(book_id, progress))
          => /\ resp'.op = "update" /\ resp'.status = 400
             /\ resp'.detail[2] = Val(progress.percentage)
             /\ books' = books
             /\ reqs' = reqs]_vars

\* C4 witness: a rejected update that also carried a location token and a
\* chapter.
C4_Witness ==
    /\ resp.op = "update" /\ resp.status = 400
    /\ ~IsNone(resp.req.progress.current_cfi)
    /\ ~IsNone(resp.req.progress.current_chapter)
    /\ HasId(resp.req.book_id)

\* C5: the stored percentage of every book is absent or within [0.0, 1.0].
C5_PercentageInRange ==
    \A bk \in books :
        IsNone(bk.percentage) \/ (0 <= Val(bk.percentage) /\ Val(bk.percentage) <= 100)

\* C5 witness: a book whose percentage an update of this run set to 1.0.
C5_Witness ==
    \E bk \in books :
        /\ bk.percentage = Some(100)
        /\ ~IsNone(bk.last_read_date) /\ Val(bk.last_read_date) >= 1

PositionFields == {"current_cfi", "current_chapter", "percentage"}
RowAfter(id) == CHOOSE bk \in books' : bk.id = id

C7_LastReadSet ==
    [][(Received =>
        \A book_id \in BookIds, progress \in ProgressUpdates :
          (/\ HasId(book_id)
           /\ PercentageOk(progress)
           /\ UpdateBegin(book_id, progress))
          => \E n \in BagToSet(reqs') :
                /\ n.pc = "upd_commit" /\ n.book_id = book_id /\ n.progress = progress
                /\ n.book.last_read_date = Some(utcnow'))
       /\ (\A q \in InFlight :
             (UpdateCommit(q) /\ HasId(q.book_id))
             => /\ RowAfter(q.book_id).last_read_date = q.book.last_read_date
                /\ ~IsNone(q.book.last_read_date)
                /\ Val(q.book.last_read_date) <= utcnow
                /\ IsNone(q.loaded.last_read_date)
                   \/ Val(q.loaded.last_read_date) < Val(q.book.last_read_date))]_vars

\* C7 witness: an update that carried no field was committed and the book's
\* last_read_date is the time of that update.
C7_Witness ==
    \E q \in InFlight :
        /\ q.pc = "upd_refresh"
        /\ q.progress = [current_cfi |-> None, current_chapter |-> None,
                         percentage |-> None]
        /\ HasId(q.book_id)
        /\ Row(q.book_id).last_read_date = Some(utcnow)

\* C8: an import whose pre-check finds a row with its fingerprint ends there:
\* no file under the books root changes, no row changes, and no request stays
\* in flight to write the file or run the extractions.
C8_DuplicateTouchesNothing ==
    [][Received =>
       \A b \in Contents, ext \in Extensions :
          (/\ EndsWithEpub(ext)
           /\ ByHash(calculate_file_hash(b)) # {}
           /\ ImportBegin(b, ext))
          => /\ files' = files
             /\ books' = books
             /\ reqs' = reqs
             /\ resp'.op = "import" /\ resp'.status = 409]_vars

\* C8 witness: the first request of the run imports the bytes of the book
\* that was already in the library and is answered 409.
C8_Witness ==
    /\ resp.op = "import" /\ resp.status = 409
    /\ started = 1
    /\ files[BookPath(calculate_file_hash(resp.req.content))]
          = Some(resp.req.content)

\* C9: when the write of the bytes fails part-way, the import is answered with
\* the failure, no row is added, and no file is left at the path of the
\* fingerprint.
C9_FailedWriteLeavesNoFile ==
    [][\A q \in InFlight :
          (is_desktop /\ ImportSave(q, "partial"))
          => /\ resp'.op = "import" /\ resp'.status = 500
             /\ books' = books
             /\ IsNone(files'[BookPath(q.file_hash)])]_vars

\* C10: an import whose bytes are in no row and whose file was written adds a
\* row at its commit, whatever the container holds; the row of a container
\* without parsable metadata has the two placeholders and no cover.
C10_ImportAlwaysCreates ==
    [][\A q \in InFlight :
          (ImportCommit(q) /\ ByHash(q.file_hash) = {})
          => /\ \E bk \in books' : bk.file_hash = q.file_hash
             /\ ~Container(q.content).openable
                => \E bk \in books' :
                      /\ bk.file_hash = q.file_hash
                      /\ bk.title = Some("Unknown Title")
                      /\ bk.author = Some("Unknown Author")
                      /\ IsNone(bk.cover_image)]_vars

\* ------------------------------------------------------ the extractions
Metadata == Val(extracted.metadata)
Values(entries) == {entries[i].value : i \in 1..Len(entries)}

\* C11: the title and the author that extract_metadata returns are never
\* absent: each is a value of the package document or its placeholder, also
\* when the title or creator element is there without text.
C11_TitleAuthorPopulated ==
    ~IsNone(extracted.metadata)
    => /\ ~IsNone(Metadata.title)
       /\ ~IsNone(Metadata.author)
       /\ Metadata.title \in Values(epub.title) \cup {Some("Unknown Title")}
       /\ Metadata.author \in Values(epub.creator) \cup {Some("Unknown Author")}

\* what one field holds when the lookups fail one by one: its default when
\* its own lookup raises, the value read otherwise
FieldAlone(c, tag, read, default) == IF tag \in c.raises THEN default ELSE read

\* C12: on a container that opens, a lookup that raises costs only its own
\* field: every other field has the value read from the package document.
C12_FieldFailureIsLocal ==
    (~IsNone(extracted.metadata) /\ epub.openable)
    => /\ Metadata.title =
             FieldAlone(epub, "title", FirstOr(epub.title, Some("Unknown Title")),
                        Some("Unknown Title"))
       /\ Metadata.author =
             FieldAlone(epub, "creator", FirstOr(epub.creator, Some("Unknown Author")),
                        Some("Unknown Author"))
       /\ Metadata.publisher =
             FieldAlone(epub, "publisher", FirstOr(epub.publisher, None), None)
       /\ Metadata.language =
             FieldAlone(epub, "language", FirstOr(epub.language, None), None)
       /\ Metadata.description =
             FieldAlone(epub, "description", FirstOr(epub.description, None), None)
       /\ Metadata.isbn =
             FieldAlone(epub, "identifier", IsbnValue(epub.identifier), None)

\* the value of an identifier entry contains "ISBN", in any case
ValueMarked(e) ==
    ~IsNone(e.value) /\ Contains(UpperSeq(Val(e.value)), <<"I", "S", "B", "N">>)

\* C13: the isbn is the value of the first identifier entry whose value
\* contains "ISBN" in any case, and None when no entry's value contains it,
\* whatever the attributes of the entries say.
C13_IsbnByValue ==
    (~IsNone(extracted.metadata) /\ epub.openable /\ epub.raises = {})
    => LET ids == epub.identifier IN
       IF \E i \in 1..Len(ids) : ValueMarked(ids[i])
       THEN \E i \in 1..Len(ids) :
               /\ ValueMarked(ids[i])
               /\ \A j \in 1..(i - 1) : ~ValueMarked(ids[j])
               /\ Metadata.isbn = ids[i].value
       ELSE IsNone(Metadata.isbn)

\* the candidate of the first tier that has one
FirstTier(t1, t2, t3) == IF ~IsNone(t1) THEN t1 ELSE IF ~IsNone(t2) THEN t2 ELSE t3

\* what decoding and re-encoding make of a candidate
Encoded(cand) ==
    IF IsNone(cand) \/ Val(cand).content # "valid" THEN None ELSE Some(DataUri(Val(cand)))

\* C14: the cover is searched in three tiers, the first tier that has a
\* candidate wins and no later tier is consulted: the cover returned is what
\* decoding makes of that candidate, and there is no candidate exactly when
\* no tier has one.
C14_FirstTierWins ==
    (~IsNone(extracted.cover) /\ epub.openable)
    => LET want == FirstTier(Method1(epub.items), Method2(epub.items),
                             Method3(epub.items))
       IN Val(extracted.cover) = Encoded(want)

\* the id or the file name of an item contains "cover", in any case
IdOrNameHasCover(it) ==
    \/ Contains(LowerSeq(it.id), <<"c", "o", "v", "e", "r">>)
    \/ Contains(LowerSeq(it.name), <<"c", "o", "v", "e", "r">>)

\* C15: when no item is typed as the cover, the second tier selects the first
\* image whose id or file name contains "cover": an image that matches by its
\* id alone is chosen ahead of an earlier image that matches on neither.
C15_SecondTierByIdOrName ==
    (~IsNone(extracted.cover) /\ epub.openable /\ IsNone(Method1(epub.items)))
    => LET images == ItemsOfType(epub.items, "image") IN
       (\E i \in 1..Len(images) : IdOrNameHasCover(images[i]))
       => Val(extracted.cover) = Encoded(FirstItem(images, IdOrNameHasCover))

\* ------------------------------------------------------------- the library
\* the cover candidate of the stored container of an import cannot be decoded
CorruptCover(q) ==
    LET c == Container(q.content) IN
    /\ c.openable
    /\ Truthy(CoverCandidate(c.items))
    /\ Val(CoverCandidate(c.items)).content = "corrupt"

\* C16: when the selected cover candidate cannot be decoded, the extraction
\* gives no cover, whatever other images the container has, and the import
\* goes on: its record has no cover and its commit adds the row.
C16_CorruptCoverStillImports ==
    [][\A q \in InFlight :
          /\ (ImportExtract(q) /\ CorruptCover(q))
             => \E n \in BagToSet(reqs') :
                   /\ n.pc = "imp_commit" /\ n.file_hash = q.file_hash
                   /\ IsNone(n.book.cover_image)
          /\ (ImportCommit(q) /\ CorruptCover(q) /\ ByHash(q.file_hash) = {})
             => \E bk \in books' :
                   bk.file_hash = q.file_hash /\ IsNone(bk.cover_image)]_vars

\* the file_path column of a record holds the path of its fingerprint
PathOfFingerprint(bk) == bk.file_path = <<"books_dir", bk.file_hash, ".epub">>

\* C17: the storage path of every record, and of every record about to be
\* committed, is the books root joined with "{fingerprint}.epub"; a write of
\* an import puts exactly its bytes at that path and touches no other path,
\* also when another import of the same bytes has written there before.
C17_SamePathSameBytes ==
    [][/\ \A bk \in books' : PathOfFingerprint(bk)
       /\ \A n \in BagToSet(reqs') : n.pc = "imp_commit" => PathOfFingerprint(n.book)
       /\ \A q \in InFlight :
             (is_desktop /\ ImportSave(q, "ok"))
             => /\ q.file_hash = calculate_file_hash(q.content)
                /\ files'[BookPath(q.file_hash)] = Some(q.content)
                /\ \A p \in Paths \ {BookPath(q.file_hash)} : files'[p] = files[p]]_vars

\* C17 witness: two imports of the same bytes have both written and wait to
\* commit, and the file at the path of the fingerprint holds those bytes.
C17_Witness ==
    \E q \in InFlight :
        /\ q.pc = "imp_commit"
        /\ CopiesIn(q, reqs) = 2
        /\ files[BookPath(calculate_file_hash(q.content))] = Some(q.content)

\* C18: the commit of the progress update that arrived last leaves in the row,
\* for every position field the update carries, the value it carries,
\* whatever other updates of the book were accepted and committed before.
C18_ArrivalOrderWins ==
    [][\A q \in InFlight :
          (/\ UpdateCommit(q)
           /\ HasId(q.book_id)
           /\ Val(q.book.last_read_date) = started)
          => \A f \in PositionFields :
                ~IsNone(q.progress[f]) => RowAfter(q.book_id)[f] = q.progress[f]]_vars

\* the next step of the request r in flight
Step(r) ==
    /\ r \in Runnable
    /\ \/ /\ \/ \E outcome \in WriteOutcomes : ImportSave(r, outcome)
             \/ ImportExtract(r) \/ ImportCommit(r) \/ ImportRefresh(r)
             \/ UpdateCommit(r) \/ UpdateRefresh(r)
             \/ \E unlinked \in BOOLEAN : DeleteUnlink(r, unlinked)
          /\ UNCHANGED annotations
       \/ DeleteCommit(r)
    /\ UNCHANGED <<examined, foreign_keys, settings>>

\* C19: while an import parses its container and makes its cover, every other
\* request in flight can take its next step.
C19_ImportDoesNotStall ==
    \A q \in InFlight, r \in InFlight :
        (q.pc = "imp_extract" /\ r # q) => ENABLED Step(r)

\* C20: when no request is in flight, the storage path of every record names
\* a file, and the bytes of the file hash to the record's fingerprint.
C20_RecordsHaveTheirFiles ==
    Quiescent
    => \A bk \in books :
          /\ ~IsNone(files[bk.file_path])
          /\ calculate_file_hash(Val(files[bk.file_path])) = bk.file_hash

\* C22: a position field (location token, chapter index, percentage) that a
\* row holds is still held by that row after every step of every handler that
\* leaves the row in the table: a progress update, accepted or rejected, may
\* replace the value of a set field and never makes it absent.
C22_SetFieldStaysSet ==
    [][\A bk \in books :
          (\E bk2 \in books' : bk2.id = bk.id)
          => \A f \in PositionFields :
                ~IsNone(bk[f]) => ~IsNone(RowAfter(bk.id)[f])]_vars

\* C22 witness: a progress update that carried no chapter index was answered
\* with the row of a book whose chapter index an earlier update had set.
C22_Witness ==
    /\ resp.op = "update" /\ resp.status = 200
    /\ IsNone(resp.req.progress.current_chapter)
    /\ Val(resp.body).current_chapter = Some(3)
    /\ HasId(resp.req.book_id)
    /\ Row(resp.req.book_id).current_chapter = Some(3)

\* no write has failed part-way: no path holds the bytes such a write leaves
NoPartialFile == \A p \in Paths : files[p] # Some(PartialBytes)

\* C23: when no request is in flight (and no write has failed part-way),
\* every file under the books root is the storage file of a record.
C23_NoFileWithoutRecord ==
    (Quiescent /\ NoPartialFile)
    => \A p \in Paths :
          ~IsNone(files[p]) => \E bk \in books : bk.file_path = p

\* C21: the commit of delete_book leaves no highlight, note or chat context
\* that names the id of the deleted book.
C21_DeleteRemovesAnnotations ==
    [][\A q \in InFlight :
          (DeleteCommit(q) /\ HasId(q.book_id))
          => \A a \in annotations' : a.book_id # q.book_id]_vars

SettingsOps == {"get_settings", "update_reading_settings", "update_api_settings"}

\* C24: the settings table never holds more than one row, and every settings
\* request is answered 200.
C24_OneSettingsRow ==
    /\ Cardinality(settings) <= 1
    /\ resp.op \in SettingsOps => resp.status = 200
====
